---- MODULE Spec2Model ----
(***************************************************************************)
(* Model of tick (src/main.rs), a touch-style utility: the driver loop of  *)
(* main, the time-source resolution and the timestamp selection of tick,   *)
(* the classification of the --time word, and the effect of set_times on   *)
(* a file's access and modification time.                                  *)
(***************************************************************************)
EXTENDS Integers, Sequences, FiniteSets, TLC

VARIABLES args, fs, i, pc, result, out, log

vars == <<args, fs, i, pc, result, out, log>>

(* ------------------------------ bounds --------------------------------- *)

\* longest list of path arguments
MaxFiles == 2
\* latest value the clock (SystemTime::now) can return
MaxNow == 4

Paths == {"f", "g"}

\* Option<T>: None is the empty sequence, Some(x) the one-element sequence
None == <<>>
Some(x) == <<x>>
IsSome(o) == o # <<>>
Unwrap(o) == o[1]

(* --------------------------- the --time word --------------------------- *)

ToLowerChar(c) ==
    CASE c = "A" -> "a"
      [] c = "M" -> "m"
      [] c = "T" -> "t"
      [] c = "U" -> "u"
      [] OTHER -> c

to_lowercase(w) == [k \in DOMAIN w |-> ToLowerChar(w[k])]

WordFromDefaultModify(word) ==
    LET l == to_lowercase(word) IN
    IF l = <<"a","c","c","e","s","s">> THEN "Access"
    ELSE IF l = <<"a","t","i","m","e">> THEN "Atime"
    ELSE IF l = <<"u","s","e">> THEN "Use"
    ELSE IF l = <<"m","o","d","i","f","y">> THEN "Modify"
    ELSE IF l = <<"m","t","i","m","e">> THEN "Mtime"
    ELSE "Modify"

\* impl From<String> for Word
WordFrom(word) ==
    LET l == to_lowercase(word) IN
    IF l = <<"a","c","c","e","s","s">> THEN "Access"
    ELSE IF l = <<"a","t","i","m","e">> THEN "Atime"
    ELSE IF l = <<"u","s","e">> THEN "Use"
    ELSE IF l = <<"m","o","d","i","f","y">> THEN "Modify"
    ELSE IF l = <<"m","t","i","m","e">> THEN "Mtime"
    ELSE "Use"

\* the words given to --time in the model
Words ==
    { <<"a","c","c","e","s","s">>, <<"a","t","i","m","e">>, <<"u","s","e">>,
      <<"m","o","d","i","f","y">>, <<"m","t","i","m","e">>,
      <<"M","T","i","m","e">>, <<"A","t","i","m","e">>,
      <<"b","o","g","u","s">> }

(* --------------------------- date strings ------------------------------ *)

FreeForm == "2024-01-01 12:00:00"
Compact == "202401011200"
Garbage == "garbage"

DateStrings == {FreeForm, Garbage}
TimeStrings == {FreeForm, Compact, Garbage}

\* the instant 2024-01-01 12:00:00 on the model's time axis
Jan1Noon == 2

\* dateparser::parse on the strings of the model: the free-form layout is one
\* of its formats; a run of 12 digits and "garbage" match none of them
dateparser_parse(s) ==
    IF s = FreeForm THEN [ok |-> TRUE, t |-> Jan1Noon]
    ELSE [ok |-> FALSE, t |-> 0]

(* ------------------------------ files ---------------------------------- *)

NowInstants == 3..MaxNow

Missing == [exists |-> FALSE, atime |-> 0, mtime |-> 0, len |-> 0]

\* the times a file that exists before the run starts with
InitFile(p) ==
    IF p = "f" THEN [exists |-> TRUE, atime |-> 0, mtime |-> 1, len |-> 1]
    ELSE [exists |-> TRUE, atime |-> 1, mtime |-> 0, len |-> 1]

\* FileTimes: each of the two times is set or left out
FileTimesNew == [accessed |-> None, modified |-> None]

Single(t) == <<"Single", t>>
Multi(a, m) == <<"Multi", a, m>>

\* File::set_times on a handle: a time left out keeps its value; the call
\* fails, changing nothing, when the file's times cannot be set
set_timesZeroing(file, ft, ok) ==
    IF ~ok THEN file
    ELSE [file EXCEPT
            !.atime = IF IsSome(ft.accessed) THEN Unwrap(ft.accessed) ELSE 0,
            !.mtime = IF IsSome(ft.modified) THEN Unwrap(ft.modified) ELSE 0]

set_times(file, ft, ok) ==
    IF ~ok THEN file
    ELSE [file EXCEPT
            !.atime = IF IsSome(ft.accessed) THEN Unwrap(ft.accessed) ELSE @,
            !.mtime = IF IsSome(ft.modified) THEN Unwrap(ft.modified) ELSE @]

\* the FileTimes set_access hands to set_times
set_access(src) ==
    LET source_time == IF src[1] = "Single" THEN src[2] ELSE src[2]
    IN  [FileTimesNew EXCEPT !.accessed = Some(source_time)]

set_modifiedCrossed(src) ==
    LET source_time == IF src[1] = "Single" THEN src[2] ELSE src[2]
    IN  [FileTimesNew EXCEPT !.modified = Some(source_time)]

\* the FileTimes set_modified hands to set_times
set_modified(src) ==
    LET source_time == IF src[1] = "Single" THEN src[2] ELSE src[3]
    IN  [FileTimesNew EXCEPT !.modified = Some(source_time)]

\* on_time: the call made for the --time word
on_time(word, src) ==
    LET word_kind == WordFrom(word) IN
    IF word_kind \in {"Use", "Access", "Atime"} THEN set_access(src)
    ELSE set_modified(src)

(* ------------------------- time-source resolution ---------------------- *)

ErrDate == "parsing date string"
ErrTime == "parsing time string"
ErrRef == "reference metadata"
ErrConflict == "Cannot use -t, -d, or -r at the same time"
ErrOpen == "opening file"
ErrCreate == "creating file"

Fail(e) == [err |-> e, src |-> Single(0)]
Resolved(s) == [err |-> "", src |-> s]

resolve_srcByPrecedence(a, fsys, now) ==
    IF IsSome(a.date) THEN
        LET d == dateparser_parse(Unwrap(a.date)) IN
        IF d.ok THEN Resolved(Single(d.t)) ELSE Fail(ErrDate)
    ELSE IF IsSome(a.time) THEN
        LET d == dateparser_parse(Unwrap(a.time)) IN
        IF d.ok THEN Resolved(Single(d.t)) ELSE Fail(ErrTime)
    ELSE IF IsSome(a.reference) THEN
        LET ref_meta == fsys[Unwrap(a.reference)] IN
        IF ref_meta.exists THEN Resolved(Multi(ref_meta.atime, ref_meta.mtime))
        ELSE Fail(ErrRef)
    ELSE Resolved(Single(now))

\* the match on (date, time, reference) in tick
resolve_src(a, fsys, now) ==
    IF IsSome(a.date) /\ ~IsSome(a.time) /\ ~IsSome(a.reference) THEN
        LET d == dateparser_parse(Unwrap(a.date)) IN
        IF d.ok THEN Resolved(Single(d.t)) ELSE Fail(ErrDate)
    ELSE IF ~IsSome(a.date) /\ IsSome(a.time) /\ ~IsSome(a.reference) THEN
        LET d == dateparser_parse(Unwrap(a.time)) IN
        IF d.ok THEN Resolved(Single(d.t)) ELSE Fail(ErrTime)
    ELSE IF ~IsSome(a.date) /\ ~IsSome(a.time) /\ IsSome(a.reference) THEN
        LET ref_meta == fsys[Unwrap(a.reference)] IN
        IF ref_meta.exists THEN Resolved(Multi(ref_meta.atime, ref_meta.mtime))
        ELSE Fail(ErrRef)
    ELSE IF ~IsSome(a.date) /\ ~IsSome(a.time) /\ ~IsSome(a.reference) THEN
        Resolved(Single(now))
    ELSE Fail(ErrConflict)

(* ------------------------- timestamp selection ------------------------- *)

select_callsFlagFirst(a, src) ==
    IF a.access /\ a.modify_time_only THEN <<set_access(src), set_modified(src)>>
    ELSE IF a.access /\ ~a.modify_time_only THEN <<set_access(src)>>
    ELSE IF ~a.modify_time_only /\ IsSome(a.word) THEN
        <<on_time(Unwrap(a.word), src)>>
    ELSE IF ~a.access /\ a.modify_time_only /\ ~IsSome(a.word) THEN
        <<set_modified(src)>>
    ELSE IF ~a.access /\ a.modify_time_only /\ IsSome(a.word) THEN
        <<set_modified(src), on_time(Unwrap(a.word), src)>>
    ELSE <<set_modified(src), set_access(src)>>

\* the match on (access, modify_time_only, word) in tick: the FileTimes of the
\* set_times calls it makes, in order
select_calls(a, src) ==
    IF a.access /\ a.modify_time_only THEN <<set_access(src), set_modified(src)>>
    ELSE IF a.access /\ ~a.modify_time_only /\ ~IsSome(a.word) THEN
        <<set_access(src)>>
    ELSE IF ~a.modify_time_only /\ IsSome(a.word) THEN
        <<on_time(Unwrap(a.word), src)>>
    ELSE IF ~a.access /\ a.modify_time_only /\ ~IsSome(a.word) THEN
        <<set_modified(src)>>
    ELSE IF ~a.access /\ a.modify_time_only /\ IsSome(a.word) THEN
        <<set_modified(src), on_time(Unwrap(a.word), src)>>
    ELSE <<set_modified(src), set_access(src)>>

RECURSIVE apply_calls(_, _, _)
\* the set_times calls of one tick applied to its file, in order
apply_calls(file, calls, ok) ==
    IF calls = <<>> THEN file
    ELSE apply_calls(set_times(file, Head(calls), ok), Tail(calls), ok)

swallowPropagating(ok) == IF ok THEN "" ELSE "set_times"

\* let _ = file_obj.set_times(..): the result of the call is dropped
swallow(ok) == ""

\* tick on an existing path: the error it returns ("" for Ok), the file after
\* it, the source it resolved and the set_times calls it made
tick(a, file_path, fsys, now, canOpen, canSet) ==
    LET file == fsys[file_path]
        r == resolve_src(a, fsys, now)
        calls == select_calls(a, r.src) \o <<FileTimesNew>>
    IN  IF ~canOpen THEN
            [err |-> ErrOpen, file |-> file, src |-> None, calls |-> <<>>]
        ELSE IF r.err # "" THEN
            [err |-> r.err, file |-> file, src |-> None, calls |-> <<>>]
        ELSE
            [err |-> swallow(canSet), file |-> apply_calls(file, calls, canSet),
             src |-> Some(r.src), calls |-> calls]

(* ------------------------------ driver --------------------------------- *)

RECURSIVE SeqsUpTo(_)
SeqsUpTo(n) ==
    IF n = 0 THEN {<<>>}
    ELSE LET S == SeqsUpTo(n - 1) IN
         S \cup {Append(s, p) : s \in {t \in S : Len(t) = n - 1}, p \in Paths}

Opt(S) == {None} \cup {Some(x) : x \in S}

\* the paths given to -r
RefPaths == {"g"}

\* the words given to --time together with a list of two or more paths
LongListWords == { <<"M","T","i","m","e">> }

\* the parsed command line; files is None when no path is given. Every
\* combination of options is run on the lists of at most one path, and the
\* longer lists with every combination but fewer words
ArgsSet ==
    {a \in [files : {None} \cup {Some(s) : s \in SeqsUpTo(MaxFiles) \ {<<>>}},
            no_create : BOOLEAN, access : BOOLEAN, modify_time_only : BOOLEAN,
            date : Opt(DateStrings), time : Opt(TimeStrings),
            reference : Opt(RefPaths), word : Opt(Words)] :
        (IsSome(a.files) /\ Len(Unwrap(a.files)) > 1) =>
            a.word \in Opt(LongListWords)}

Init ==
    /\ args \in ArgsSet
    /\ fs \in {[p \in Paths |-> IF p \in E THEN InitFile(p) ELSE Missing] :
                 E \in SUBSET Paths}
    /\ i = 1
    /\ pc = "main"
    /\ result = "running"
    /\ out = ""
    /\ log = <<>>

files == Unwrap(args.files)

tryContinue(err) == FALSE

\* the ? operator: an error returns from main at once
try(err) == err # ""

should_createAlways(a) == TRUE

\* the Err(_) arm of main: create unless --no-create
should_create(a) == ~a.no_create

\* what one turn of the loop did, kept for the properties below; env is what
\* the environment allowed: open, setTimes, create
Entry(op, p, err, pre, post, src, calls, env) ==
    [idx |-> i, op |-> op, path |-> p, err |-> err, pre |-> pre,
     post |-> post, src |-> src, calls |-> calls, env |-> env,
     fsPre |-> fs]

Env(canOpen, canSet, canCreate) ==
    [open |-> canOpen, setTimes |-> canSet, create |-> canCreate]

Advance(err) ==
    IF try(err)
    THEN /\ pc' = "done" /\ result' = "Err" /\ i' = i
    ELSE /\ pc' = "main" /\ result' = result /\ i' = i + 1

\* no path arguments: the missing-operand message, then Ok
MissingOperand ==
    /\ pc = "main"
    /\ ~IsSome(args.files)
    /\ out' = "tick: missing operand"
    /\ pc' = "done"
    /\ result' = "Ok"
    /\ UNCHANGED <<args, fs, i, log>>

\* one turn of the loop on a path that exists: tick(&args, &file)?
MainTick ==
    /\ pc = "main"
    /\ IsSome(args.files)
    /\ i <= Len(files)
    /\ fs[files[i]].exists
    /\ \E now \in NowInstants, canOpen \in BOOLEAN, canSet \in BOOLEAN :
         LET p == files[i]
             r == tick(args, p, fs, now, canOpen, canSet)
         IN  /\ fs' = [fs EXCEPT ![p] = r.file]
             /\ log' = Append(log, Entry("tick", p, r.err, fs[p], r.file,
                                         r.src, r.calls,
                                         Env(canOpen, canSet, FALSE)))
             /\ Advance(r.err)
    /\ UNCHANGED <<args, out>>

\* one turn of the loop on a path that does not exist, without --no-create:
\* File::create(&file)?
MainCreate ==
    /\ pc = "main"
    /\ IsSome(args.files)
    /\ i <= Len(files)
    /\ ~fs[files[i]].exists
    /\ should_create(args)
    /\ \E now \in NowInstants, canCreate \in BOOLEAN :
         LET p == files[i]
             made == [exists |-> TRUE, atime |-> now, mtime |-> now, len |-> 0]
             post == IF canCreate THEN made ELSE fs[p]
             err == IF canCreate THEN "" ELSE ErrCreate
         IN  /\ fs' = [fs EXCEPT ![p] = post]
             /\ log' = Append(log, Entry("create", p, err, fs[p], post,
                                         None, <<>>,
                                         Env(FALSE, FALSE, canCreate)))
             /\ Advance(err)
    /\ UNCHANGED <<args, out>>

\* one turn of the loop on a path that does not exist, with --no-create
MainSkip ==
    /\ pc = "main"
    /\ IsSome(args.files)
    /\ i <= Len(files)
    /\ ~fs[files[i]].exists
    /\ ~should_create(args)
    /\ log' = Append(log, Entry("skip", files[i], "", fs[files[i]],
                                fs[files[i]], None, <<>>,
                                Env(FALSE, FALSE, FALSE)))
    /\ Advance("")
    /\ UNCHANGED <<args, fs, out>>

\* the loop is over: main returns Ok(())
MainReturn ==
    /\ pc = "main"
    /\ IsSome(args.files)
    /\ i > Len(files)
    /\ pc' = "done"
    /\ result' = "Ok"
    /\ UNCHANGED <<args, fs, i, out, log>>

Next == MissingOperand \/ MainTick \/ MainCreate \/ MainSkip \/ MainReturn

Spec == Init /\ [][Next]_vars

TypeOK ==
    /\ args \in ArgsSet
    /\ pc \in {"main", "done"}
    /\ result \in {"running", "Ok", "Err"}
    /\ i \in 1..(MaxFiles + 1)

(* ----------------------------- properties ------------------------------ *)

Entries == {log[k] : k \in DOMAIN log}
Ticks == {e \in Entries : e.op = "tick"}
\* the ticks that opened their target and resolved a time source
DoneTicks == {e \in Ticks : e.err = ""}

NumSources ==
    (IF IsSome(args.date) THEN 1 ELSE 0) + (IF IsSome(args.time) THEN 1 ELSE 0)
    + (IF IsSome(args.reference) THEN 1 ELSE 0)

OnlyDate == IsSome(args.date) /\ NumSources = 1
OnlyTime == IsSome(args.time) /\ NumSources = 1
OnlyReference == IsSome(args.reference) /\ NumSources = 1

\* C1: on an existing target that opens, two or more of -d, -t, -r give the
\* conflicting-time-source error, whichever of the 4 combinations it is; no
\* source is resolved, no set_times call is made and the file keeps its times
C1_ConflictAlwaysFails ==
    \A e \in Ticks :
        (e.env.open /\ NumSources >= 2) =>
            /\ e.err = ErrConflict
            /\ e.src = None
            /\ e.calls = <<>>
            /\ e.post = e.pre

C1_Witness ==
    \E e \in Ticks :
        /\ e.env.open
        /\ IsSome(args.date) /\ args.date = Some(FreeForm)
        /\ IsSome(args.reference) /\ ~IsSome(args.time)
        /\ fs[Unwrap(args.reference)].exists
        /\ e.err = ErrConflict

\* C2: every finished run with two or more of -d, -t, -r and a list of path
\* arguments ends with a non-zero exit status
C2_ConflictExitsNonZero ==
    (pc = "done" /\ IsSome(args.files) /\ NumSources >= 2) => result = "Err"

(* the decision table of the timestamp policy, as the claims state it *)

AccessWords ==
    { <<"a","c","c","e","s","s">>, <<"a","t","i","m","e">>, <<"u","s","e">>,
      <<"A","t","i","m","e">> }
ModifyWords ==
    { <<"m","o","d","i","f","y">>, <<"m","t","i","m","e">>,
      <<"M","T","i","m","e">> }

\* the class of the named category: case-insensitive, anything else is access
Category(w) == IF w \in ModifyWords THEN "modify" ELSE "access"

TableRows(a, m, w) ==
    {r \in 1..6 :
        \/ r = 1 /\ a /\ m
        \/ r = 2 /\ a /\ ~m /\ ~IsSome(w)
        \/ r = 3 /\ ~m /\ IsSome(w)
        \/ r = 4 /\ ~a /\ m /\ ~IsSome(w)
        \/ r = 5 /\ ~a /\ m /\ IsSome(w)
        \/ r = 6 /\ ~a /\ ~m /\ ~IsSome(w)}

RowAttrs(r, w) ==
    CASE r = 1 -> {"access", "modify"}
      [] r = 2 -> {"access"}
      [] r = 3 -> {Category(Unwrap(w))}
      [] r = 4 -> {"modify"}
      [] r = 5 -> {"modify", Category(Unwrap(w))}
      [] r = 6 -> {"access", "modify"}

FirstRow(a, m, w) ==
    CHOOSE r \in TableRows(a, m, w) : \A q \in TableRows(a, m, w) : r <= q

Decision == RowAttrs(FirstRow(args.access, args.modify_time_only, args.word),
                     args.word)

\* the attributes the set_times calls of a tick carry
WrittenAttrs(calls) ==
    {x \in {"access", "modify"} :
        \E k \in DOMAIN calls :
            \/ x = "access" /\ IsSome(calls[k].accessed)
            \/ x = "modify" /\ IsSome(calls[k].modified)}

\* C3: the attributes tick writes are those of the first matching row of the
\* six-row table; exactly one row matches and the set is never empty
C3_DecisionTable ==
    \A e \in DoneTicks :
        /\ Cardinality(TableRows(args.access, args.modify_time_only,
                                 args.word)) = 1
        /\ WrittenAttrs(e.calls) = Decision
        /\ WrittenAttrs(e.calls) # {}

C3_Witness ==
    \E e \in DoneTicks :
        /\ args.access /\ ~args.modify_time_only
        /\ IsSome(args.word) /\ Unwrap(args.word) \in ModifyWords
        /\ WrittenAttrs(e.calls) = {"modify"}
        /\ e.env.setTimes /\ e.post.mtime # e.pre.mtime

pick(src, which) ==
    IF src[1] = "Single" THEN src[2]
    ELSE IF which = "access" THEN src[2] ELSE src[3]

\* C4: every value written is pick(source, attribute): a set_times call
\* carries pick(src, access) as access time and pick(src, modify) as
\* modification time, the file ends with them when the calls succeed, and the
\* source of -r is the pair (access, modify) of the reference file
C4_WrittenValueIsPick ==
    \A e \in DoneTicks :
        LET src == Unwrap(e.src) IN
        /\ \A k \in DOMAIN e.calls :
            /\ IsSome(e.calls[k].accessed) =>
                   Unwrap(e.calls[k].accessed) = pick(src, "access")
            /\ IsSome(e.calls[k].modified) =>
                   Unwrap(e.calls[k].modified) = pick(src, "modify")
        /\ (e.env.setTimes /\ "access" \in WrittenAttrs(e.calls)) =>
               e.post.atime = pick(src, "access")
        /\ (e.env.setTimes /\ "modify" \in WrittenAttrs(e.calls)) =>
               e.post.mtime = pick(src, "modify")
        /\ OnlyReference =>
               src = Multi(e.fsPre[Unwrap(args.reference)].atime,
                           e.fsPre[Unwrap(args.reference)].mtime)
        /\ ~OnlyReference => src[1] = "Single"

C4_Witness ==
    \E e \in DoneTicks :
        /\ OnlyReference /\ Unwrap(args.reference) # e.path
        /\ ~args.access /\ ~args.modify_time_only /\ ~IsSome(args.word)
        /\ e.env.setTimes
        /\ Unwrap(e.src)[2] # Unwrap(e.src)[3]
        /\ e.post.atime = Unwrap(e.src)[2]
        /\ e.post.mtime = Unwrap(e.src)[3]
        /\ e.post # e.pre

\* C5: when the decision is access only the modification time after tick is
\* the one before it, and when it is modify only the access time is
C5_OtherAttributeUntouched ==
    \A e \in DoneTicks :
        /\ Decision = {"access"} => e.post.mtime = e.pre.mtime
        /\ Decision = {"modify"} => e.post.atime = e.pre.atime

C5_Witness ==
    \E e \in DoneTicks :
        /\ Decision = {"access"}
        /\ e.env.setTimes
        /\ e.post.atime # e.pre.atime
        /\ e.pre.mtime # 0
        /\ e.post.mtime = e.pre.mtime

Bogus == <<"b","o","g","u","s">>

\* the set_times calls a tick makes for flags a and source src
CallsOf(a, src) == select_calls(a, src) \o <<FileTimesNew>>

\* C6: the word is classified case-insensitively, anything unrecognized as
\* access; a tick with an unrecognized word makes the calls, and leaves the
\* file, as the same tick with "use" or with "access" would
C6_UnknownWordIsAccess ==
    /\ IsSome(args.word) =>
           (WordFrom(Unwrap(args.word)) \in {"Access", "Atime", "Use"})
               = (Category(Unwrap(args.word)) = "access")
    /\ \A e \in DoneTicks :
        (IsSome(args.word)
            /\ Unwrap(args.word) \notin AccessWords \cup ModifyWords) =>
            \A w \in { <<"u","s","e">>, <<"a","c","c","e","s","s">> } :
                LET asW == [args EXCEPT !.word = Some(w)] IN
                /\ e.calls = CallsOf(asW, Unwrap(e.src))
                /\ e.post = apply_calls(e.pre, CallsOf(asW, Unwrap(e.src)),
                                        e.env.setTimes)

C6_Witness ==
    \E e \in DoneTicks :
        /\ args.word = Some(Bogus)
        /\ args.modify_time_only
        /\ e.env.setTimes
        /\ e.post.atime # e.pre.atime
        /\ e.post.mtime # e.pre.mtime

\* the paths of the turns of the loop made so far
Handled == {log[k].path : k \in DOMAIN log}

\* C7: the paths are handled in argument order, one per turn; a failing turn
\* is the last one and ends the run with an error; it changes no file, and a
\* path no turn has reached is as it was when the run started
C7_FirstFailureStops ==
    /\ \A k \in DOMAIN log : log[k].idx = k /\ log[k].path = files[k]
    /\ pc = "main" /\ IsSome(args.files) => i = Len(log) + 1
    /\ \A k \in DOMAIN log :
        log[k].err # "" =>
            /\ k = Len(log)
            /\ pc = "done" /\ result = "Err"
            /\ fs = log[k].fsPre
    /\ \A k \in DOMAIN log :
        \A p \in Paths : p \notin Handled => fs[p] = log[1].fsPre[p]
    /\ \A k \in DOMAIN log : k > 1 =>
        \A p \in Paths :
            log[k].fsPre[p] =
                IF p = log[k-1].path THEN log[k-1].post ELSE log[k-1].fsPre[p]

C7_Witness ==
    /\ result = "Err"
    /\ Len(log) = 2
    /\ log[1].op = "tick" /\ log[1].post # log[1].pre
    /\ fs[log[1].path] = log[1].post
    /\ log[2].path # log[1].path
    /\ log[2].err = ErrCreate

\* C8: a path that does not exist is never ticked: no source is resolved and
\* no set_times call is made for it. Without --no-create it is created empty
\* (or the creation fails with an error); with --no-create it stays absent,
\* the turn has no error and the loop goes on to the next argument
C8_MissingTarget ==
    \A k \in DOMAIN log :
        LET e == log[k] IN
        /\ e.op = "tick" <=> e.pre.exists
        /\ ~e.pre.exists =>
            /\ e.src = None /\ e.calls = <<>>
            /\ ~args.no_create =>
                /\ e.op = "create"
                /\ e.env.create =>
                    /\ e.err = ""
                    /\ e.post.exists /\ e.post.len = 0
                    /\ e.post.atime \in NowInstants
                    /\ e.post.mtime = e.post.atime
                /\ ~e.env.create => e.err = ErrCreate /\ e.post = e.pre
            /\ args.no_create =>
                /\ e.op = "skip"
                /\ e.err = ""
                /\ e.post = e.pre
                /\ k = Len(log) => (i = k + 1 /\ result # "Err")

C8_Witness ==
    \E k \in DOMAIN log :
        /\ log[k].op = "create" /\ log[k].err = ""
        /\ args.date = Some(FreeForm) /\ NumSources = 1
        /\ args.modify_time_only
        /\ fs[log[k].path].exists /\ fs[log[k].path].len = 0
        /\ fs[log[k].path].mtime # Jan1Noon

\* the strings of the model that fit [[CC]YY]MMDDhhmm[.ss], and the instant
\* the layout denotes
FitsCompactLayout(s) == s = Compact
CompactInstant(s) == Jan1Noon

\* C9: -t has its own, stricter grammar: a string outside the layout
\* [[CC]YY]MMDDhhmm[.ss] is rejected with the invalid-time-string error, a
\* string inside it resolves to the instant it denotes
C9_CompactGrammar ==
    \A e \in Ticks :
        (e.env.open /\ OnlyTime) =>
            IF FitsCompactLayout(Unwrap(args.time))
            THEN e.err = "" /\ e.src = Some(Single(CompactInstant(Unwrap(args.time))))
            ELSE e.err = ErrTime

\* C10: a failing set_times call is not an error: a tick that opened its
\* target and resolved its source returns Ok and the loop goes on; a failure
\* to open, to parse the date or the time, to read the reference, a conflict
\* of sources and a failure to create are errors that end the run
C10_OnlySetTimesSwallowed ==
    \A k \in DOMAIN log :
        LET e == log[k] IN
        /\ (e.op = "tick" /\ e.env.open /\ e.src # None) =>
            /\ e.err = ""
            /\ k = Len(log) => (i = k + 1 /\ result # "Err")
            /\ ~e.env.setTimes => e.post = e.pre
        /\ (e.op = "tick" /\ ~e.env.open) => e.err = ErrOpen
        /\ (e.op = "tick" /\ e.env.open) =>
            /\ (OnlyDate /\ ~dateparser_parse(Unwrap(args.date)).ok) =>
                   e.err = ErrDate
            /\ (OnlyTime /\ ~dateparser_parse(Unwrap(args.time)).ok) =>
                   e.err = ErrTime
            /\ (OnlyReference /\ ~e.fsPre[Unwrap(args.reference)].exists) =>
                   e.err = ErrRef
            /\ NumSources >= 2 => e.err = ErrConflict
        /\ (e.op = "create" /\ ~e.env.create) => e.err = ErrCreate
        /\ e.err # "" => (pc = "done" /\ result = "Err")

C10_Witness ==
    \E k \in DOMAIN log :
        /\ log[k].op = "tick" /\ log[k].err = ""
        /\ ~log[k].env.setTimes
        /\ log[k].post = log[k].pre
        /\ k < Len(log)
        /\ result = "Ok"
====
